---- MODULE Spec2Model ----
(***************************************************************************)
(* State-machine model of src/interview_agent.py: the Streamlit script     *)
(* that starts/stops an ElevenLabs voice conversation, relays the          *)
(* provider's transcript callbacks into st.session_state.messages and      *)
(* offers a text fallback while no conversation is active.                 *)
(*                                                                         *)
(* One action is one script run triggered by one widget event (a button    *)
(* press or a chat_input submission), or one callback invocation made by   *)
(* the provider's thread.  The start, stop and clear handlers touch only   *)
(* conversation_active / conversation_obj / error_count or rebind messages *)
(* in a single assignment, and the callbacks touch only messages, so a     *)
(* callback running inside such a handler commutes with it: each of these  *)
(* handlers is one atomic action.  The text fallback appends to messages   *)
(* twice (lines 171 and 179), so it is two steps with the script's         *)
(* position kept in pc.                                                    *)
(***************************************************************************)
EXTENDS Integers, Sequences, FiniteSets, TLC

\* ---- bounds of the model ------------------------------------------------
MaxMessages == 2
MaxFails == 3

\* ---- program constants --------------------------------------------------
FailureThreshold == 3

\* Python's None.
None == "None"

\* Values os.getenv can give for AGENT_ID / ELEVENLABS_API_KEY.
AgentIds == {None, "", "agent-42"}
ApiKeys == {None, "", "sk-1"}

\* Texts the provider's callbacks deliver, and prompts typed in chat_input.
Texts == {"hello", "hi there"}
Prompts == {"What is your experience?"}

\* Conditions of the audio adapter's resources when stop() runs.
StreamStates == {"absent", "ok", "stop_raises", "close_raises"}
PaStates == {"absent", "ok", "raises"}

\* Where a start attempt can raise.
StartOutcomes ==
    {"ok", "client_raises", "audio_interface_raises", "conversation_raises",
     "start_session_raises"}

VARIABLES
    AGENT_ID,             \* line 21
    API_KEY,              \* line 22
    messages,             \* st.session_state.messages
    conversation_active,  \* st.session_state.conversation_active
    conversation_obj,     \* st.session_state.conversation_obj
    error_count,          \* st.session_state.error_count
    pc,                   \* position of the script thread: "idle" or "ack"
    prompt,               \* the chat_input text of the run in progress
    streaming,            \* the session of conversation_obj delivers callbacks
    orphan,               \* a discarded session still delivers callbacks
    ui,                   \* notices (st.success/info/warning/error) of the last run
    calls,                \* provider and audio calls made by the last run
    audio,                \* what the last run's audio release met: [in, out, pa, fault]
    cb_notice,            \* notice of the most recent callback invocation
    last,                 \* the most recent event: [op, arg, outcome]
    fails,                \* failed starts since the last successful start
    transition,           \* most recent of: successful start, processed stop
    processed             \* messages produced since the last clear, in order

vars ==
    <<AGENT_ID, API_KEY, messages, conversation_active, conversation_obj,
      error_count, pc, prompt, streaming, orphan, ui, calls, audio, cb_notice,
      last, fails, transition, processed>>

\* ---- helpers -------------------------------------------------------------
Range(s) == {s[i] : i \in 1..Len(s)}

\* Python truthiness of an Optional[str].
Truthy(s) == s # None /\ s # ""

Notice(kind, n) == [kind |-> kind, n |-> n]

Event(op, arg, outcome) == [op |-> op, arg |-> arg, outcome |-> outcome]

ChatMessage(role, content) == [role |-> role, content |-> content]

\* An "append" that rebinds the list to the new message alone.
TranscriptOverwrite(msgs, m) == <<m>>

\* An append that puts the new message first.
TranscriptPrepend(msgs, m) == <<m>> \o msgs

\* list.append on st.session_state.messages.
TranscriptAppend(msgs, m) == Append(msgs, m)

\* The canned acknowledgement of the text fallback.
Acknowledgement(p) ==
    "I received: '" \o p \o "'. Start voice conversation for full capabilities!"

\* A credential check that forgets the API key.
AgentIdOnly == Truthy(AGENT_ID)

\* `if AGENT_ID and API_KEY`
CredentialsLoaded == Truthy(AGENT_ID) /\ Truthy(API_KEY)

\* A start button that is not disabled while a conversation is active.
StartDisabledByCredentialsOnly == ~CredentialsLoaded

\* disabled= of the two buttons.
StartDisabled == conversation_active \/ ~CredentialsLoaded
StopDisabled == ~conversation_active

\* Sidebar header: credentials notice, issued by every run.
Header ==
    IF CredentialsLoaded
    THEN <<Notice("credentials_loaded", 0), Notice("agent_id_info", 0)>>
    ELSE <<Notice("missing_credentials", 0)>>

\* Status notices of a run that reaches the end of the sidebar and the main
\* page.
Status(active, ec) ==
    (IF active THEN <<Notice("status_active", 0)>>
               ELSE <<Notice("status_inactive", 0)>>)
    \o (IF ec > 0 THEN <<Notice("error_count_warning", ec)>> ELSE <<>>)
    \o (IF active THEN <<Notice("voice_active_info", 0)>>
        ELSE IF ec > 0 THEN <<Notice("audio_issues_warning", 0)>> ELSE <<>>)

\* ---- audio adapter -------------------------------------------------------
\* What a block of statements did: the calls it made, the warnings it
\* issued, and whether an exception left it.
Block(c, w, r) == [calls |-> c, warns |-> w, raised |-> r]

\* `if hasattr(self, s) and self.s: self.s.stop_stream(); self.s.close()`
CloseStream(name, s) ==
    CASE s = "absent" -> Block(<<>>, <<>>, FALSE)
      [] s = "ok" ->
            Block(<<name \o ".stop_stream", name \o ".close">>, <<>>, FALSE)
      [] s = "stop_raises" -> Block(<<name \o ".stop_stream">>, <<>>, TRUE)
      [] s = "close_raises" ->
            Block(<<name \o ".stop_stream", name \o ".close">>, <<>>, TRUE)

\* `if hasattr(self, 'pa') and self.pa: self.pa.terminate()`
Terminate(s) ==
    CASE s = "absent" -> Block(<<>>, <<>>, FALSE)
      [] s = "ok" -> Block(<<"pa.terminate">>, <<>>, FALSE)
      [] s = "raises" -> Block(<<"pa.terminate">>, <<>>, TRUE)

\* try: b / except Exception as e: st.warning(w)
TryWarn(b, w) ==
    IF b.raised THEN Block(b.calls, Append(b.warns, Notice(w, 0)), FALSE) ELSE b

\* b1 ; b2 -- b2 runs only if no exception left b1.
Then(b1, b2) ==
    IF b1.raised THEN b1
    ELSE Block(b1.calls \o b2.calls, b1.warns \o b2.warns, b2.raised)

\* A stop() whose first block has no try/except.
AudioStopUnguardedInput(in, out, pa) ==
    Then(Then(CloseStream("in_stream", in),
              TryWarn(CloseStream("out_stream", out), "audio_output_cleanup_warning")),
         TryWarn(Terminate(pa), "pyaudio_termination_warning"))

\* RobustAudioInterface.stop
RobustAudioInterface_stop(in, out, pa) ==
    Then(Then(TryWarn(CloseStream("in_stream", in), "audio_cleanup_warning"),
              TryWarn(CloseStream("out_stream", out), "audio_output_cleanup_warning")),
         TryWarn(Terminate(pa), "pyaudio_termination_warning"))

\* conversation_obj.end_session(): the provider releases the audio adapter
\* (RobustAudioInterface.stop) and may itself raise.
EndSession(in, out, pa, fault) ==
    LET r == RobustAudioInterface_stop(in, out, pa)
    IN  Block(<<"end_session">> \o r.calls, r.warns, r.raised \/ fault)

\* ---- session state -------------------------------------------------------
\* A start handler without the reset.
KeepErrorCount(ec) == ec

\* `st.session_state.error_count = 0` at the head of the start handler's try.
ResetErrorCount(ec) == 0

\* Provider calls a start attempt makes, up to the one that raises.
StartCalls(outcome) ==
    CASE outcome = "client_raises" -> <<"ElevenLabs">>
      [] outcome = "audio_interface_raises" ->
            <<"ElevenLabs", "RobustAudioInterface">>
      [] outcome = "conversation_raises" ->
            <<"ElevenLabs", "RobustAudioInterface", "Conversation">>
      [] OTHER ->
            <<"ElevenLabs", "RobustAudioInterface", "Conversation",
              "start_session">>

\* An except branch that shows nothing.
SilentFailure(ec) == <<>>

\* The except branch of the start handler: messages for failure number ec.
FailureNotices(ec) ==
    <<Notice("start_failed", ec)>>
    \o (IF ec >= FailureThreshold THEN <<Notice("multiple_failures", 0)>>
        ELSE <<>>)

\* A stop whose except branch does not reset the session state.
NoForcedReset(active, obj) == [active |-> active, obj |-> obj]

\* The except branch of the stop handler: "Force reset even if cleanup fails".
ForcedReset(active, obj) == [active |-> FALSE, obj |-> None]

\* A normal stop that clears the flag and keeps the handle.
NormalResetKeepsHandle(active, obj) == [active |-> FALSE, obj |-> obj]

\* The try branch of the stop handler after end_session() returned.
NormalReset(active, obj) == [active |-> FALSE, obj |-> None]

\* A start that stores the handle and forgets the flag.
StartedHandleOnly(active, obj) == [active |-> active, obj |-> "Conversation"]

\* The start handler after start_session() returned.
Started(active, obj) == [active |-> TRUE, obj |-> "Conversation"]

\* A start that stores the handle before start_session() has returned.
HandleStoredEarly(active, obj) == [active |-> active, obj |-> "Conversation"]

\* The start handler when a call of its try raised: the except branch is
\* entered before lines 108-109, so neither the handle nor the flag is set.
FailedStart(active, obj) == [active |-> active, obj |-> obj]

\* No release ran.
NoAudio == [in |-> None, out |-> None, pa |-> None, fault |-> FALSE]

\* A clear that leaves the list as it is.
ClearNoOp(msgs) == msgs

\* `st.session_state.messages = []`
ClearedTranscript(msgs) == <<>>

Init ==
    /\ AGENT_ID \in AgentIds
    /\ API_KEY \in ApiKeys
    /\ messages = <<>>
    /\ conversation_active = FALSE
    /\ conversation_obj = None
    /\ error_count = 0
    /\ pc = "idle"
    /\ prompt = None
    /\ streaming = FALSE
    /\ orphan = FALSE
    /\ ui = <<>>
    /\ calls = <<>>
    /\ audio = NoAudio
    /\ cb_notice = None
    /\ last = Event("init", None, "ok")
    /\ fails = 0
    /\ transition = "none"
    /\ processed = <<>>

\* ---- script runs ---------------------------------------------------------
\* The start command while the start button is disabled: st.button returns
\* False, the handler body is skipped and the run renders to the end.
StartRejected ==
    /\ pc = "idle"
    /\ StartDisabled
    /\ ui' = Header \o Status(conversation_active, error_count)
    /\ calls' = <<>>
    /\ audio' = NoAudio
    /\ last' = Event("start", None, "disabled")
    /\ UNCHANGED <<AGENT_ID, API_KEY, messages, conversation_active,
                   conversation_obj, error_count, pc, prompt, streaming,
                   orphan, cb_notice, fails, transition, processed>>

\* The start button pressed while enabled.
StartConversation(outcome) ==
    /\ pc = "idle"
    /\ ~StartDisabled
    /\ outcome # "ok" => fails < MaxFails
    /\ IF ~CredentialsLoaded
       THEN /\ ui' = Header \o Status(conversation_active, error_count)
            /\ calls' = <<>>
            /\ audio' = NoAudio
            /\ last' = Event("start", None, "disabled")
            /\ UNCHANGED <<conversation_active, conversation_obj, error_count,
                           streaming, fails, transition>>
       ELSE IF outcome = "ok"
       THEN /\ error_count' = ResetErrorCount(error_count)
            /\ conversation_obj' = Started(conversation_active, conversation_obj).obj
            /\ conversation_active' =
                  Started(conversation_active, conversation_obj).active
            /\ streaming' = TRUE
            /\ ui' = Header \o <<Notice("started", 0)>>
            /\ calls' = StartCalls(outcome)
            /\ audio' = NoAudio
            /\ last' = Event("start", None, "ok")
            /\ fails' = 0
            /\ transition' = "start_ok"
       ELSE /\ error_count' = ResetErrorCount(error_count) + 1
            /\ ui' = Header \o FailureNotices(error_count')
                     \o Status(conversation_active, error_count')
            /\ calls' = StartCalls(outcome)
            /\ audio' = NoAudio
            /\ last' = Event("start", outcome, "failed")
            /\ fails' = fails + 1
            /\ conversation_obj' =
                  FailedStart(conversation_active, conversation_obj).obj
            /\ conversation_active' =
                  FailedStart(conversation_active, conversation_obj).active
            /\ UNCHANGED <<streaming, transition>>
    /\ UNCHANGED <<AGENT_ID, API_KEY, messages, pc, prompt, orphan, cb_notice,
                   processed>>

\* A stop handler with neither the disabled= gate nor the handle test: on an
\* inactive session end_session() is called on None, raises, and the except
\* branch runs.
StopUngated ==
    /\ pc = "idle"
    /\ StopDisabled
    /\ conversation_active' = FALSE
    /\ conversation_obj' = None
    /\ ui' = Header \o <<Notice("cleanup_warning", 0)>>
    /\ calls' = <<"end_session">>
    /\ audio' = NoAudio
    /\ last' = Event("stop", None, "disabled")
    /\ UNCHANGED <<AGENT_ID, API_KEY, messages, error_count, pc, prompt,
                   streaming, orphan, cb_notice, fails, transition, processed>>

\* The stop command while the stop button is disabled.
StopRejected ==
    /\ pc = "idle"
    /\ StopDisabled
    /\ ui' = Header \o Status(conversation_active, error_count)
    /\ calls' = <<>>
    /\ audio' = NoAudio
    /\ last' = Event("stop", None, "disabled")
    /\ UNCHANGED <<AGENT_ID, API_KEY, messages, conversation_active,
                   conversation_obj, error_count, pc, prompt, streaming,
                   orphan, cb_notice, fails, transition, processed>>

\* The stop button pressed while enabled.  in/out/pa: the condition of the
\* audio resources; fault: end_session itself raises; keeps: the session whose
\* end_session raised goes on delivering callbacks.
StopConversation(in, out, pa, fault, keeps) ==
    /\ pc = "idle"
    /\ ~StopDisabled
    /\ keeps => fault
    /\ IF conversation_obj # None
       THEN LET r == EndSession(in, out, pa, fault)
                s == IF r.raised
                     THEN ForcedReset(conversation_active, conversation_obj)
                     ELSE NormalReset(conversation_active, conversation_obj)
            IN  /\ conversation_active' = s.active
                /\ conversation_obj' = s.obj
                /\ streaming' = FALSE
                /\ orphan' = (orphan \/ (r.raised /\ keeps))
                /\ ui' = Header \o r.warns
                         \o (IF r.raised THEN <<Notice("cleanup_warning", 0)>>
                             ELSE <<Notice("stopped", 0)>>)
                /\ calls' = r.calls
                /\ audio' = [in |-> in, out |-> out, pa |-> pa, fault |-> fault]
                /\ last' = Event("stop", None, IF r.raised THEN "forced" ELSE "ok")
                /\ transition' = "stop"
       ELSE /\ ui' = Header \o Status(conversation_active, error_count)
            /\ calls' = <<>>
            /\ audio' = NoAudio
            /\ last' = Event("stop", None, "disabled")
            /\ UNCHANGED <<conversation_active, conversation_obj, streaming,
                           orphan, transition>>
    /\ UNCHANGED <<AGENT_ID, API_KEY, messages, error_count, pc, prompt,
                   cb_notice, fails, processed>>

\* The clear button: always enabled.
ClearChat ==
    /\ pc = "idle"
    /\ messages' = ClearedTranscript(messages)
    /\ processed' = <<>>
    /\ ui' = Header
    /\ calls' = <<>>
    /\ audio' = NoAudio
    /\ last' = Event("clear", IF messages = <<>> THEN "empty" ELSE "nonempty", "ok")
    /\ UNCHANGED <<AGENT_ID, API_KEY, conversation_active, conversation_obj,
                   error_count, pc, prompt, streaming, orphan, cb_notice,
                   fails, transition>>

\* The timed rerun of an active conversation (time.sleep(2); st.rerun()).
AutoRefresh ==
    /\ pc = "idle"
    /\ conversation_active
    /\ ui' = Header \o Status(conversation_active, error_count)
    /\ calls' = <<>>
    /\ audio' = NoAudio
    /\ last' = Event("rerun", None, "ok")
    /\ UNCHANGED <<AGENT_ID, API_KEY, messages, conversation_active,
                   conversation_obj, error_count, pc, prompt, streaming,
                   orphan, cb_notice, fails, transition, processed>>

\* Text fallback, first append: the user's message.
TextInput(p) ==
    /\ pc = "idle"
    /\ ~conversation_active
    /\ Truthy(p)
    /\ Len(messages) + 2 <= MaxMessages
    /\ LET m == ChatMessage("user", p)
       IN  /\ messages' = TranscriptAppend(messages, m)
           /\ processed' = Append(processed, m)
    /\ pc' = "ack"
    /\ prompt' = p
    /\ ui' = Header \o Status(conversation_active, error_count)
    /\ calls' = <<>>
    /\ audio' = NoAudio
    /\ last' = Event("text_input", p, "ok")
    /\ UNCHANGED <<AGENT_ID, API_KEY, conversation_active, conversation_obj,
                   error_count, streaming, orphan, cb_notice, fails,
                   transition>>

\* Text fallback, second append: the canned acknowledgement.
TextAcknowledge ==
    /\ pc = "ack"
    /\ LET m == ChatMessage("assistant", Acknowledgement(prompt))
       IN  /\ messages' = TranscriptAppend(messages, m)
           /\ processed' = Append(processed, m)
    /\ pc' = "idle"
    /\ prompt' = None
    /\ last' = Event("text_ack", prompt, "ok")
    /\ UNCHANGED <<AGENT_ID, API_KEY, conversation_active, conversation_obj,
                   error_count, streaming, orphan, ui, calls, audio,
                   cb_notice, fails, transition>>

\* ---- provider callbacks --------------------------------------------------
\* A callback without try/except: a raising append leaves the callback, shows
\* nothing and ends the provider thread that delivered it.
CallbackUnguarded(op, role, text, fault, errorKind) ==
    /\ streaming \/ orphan
    /\ Len(messages) < MaxMessages
    /\ IF fault
       THEN /\ last' = Event(op, text, "error")
            /\ streaming' = FALSE
            /\ orphan' = FALSE
            /\ UNCHANGED <<messages, processed, cb_notice>>
       ELSE LET m == ChatMessage(role, text)
            IN  /\ messages' = TranscriptAppend(messages, m)
                /\ processed' = Append(processed, m)
                /\ cb_notice' = None
                /\ last' = Event(op, text, "ok")
                /\ UNCHANGED <<streaming, orphan>>
    /\ UNCHANGED <<AGENT_ID, API_KEY, conversation_active, conversation_obj,
                   error_count, pc, prompt, ui, calls, audio, fails,
                   transition>>

\* A callback delivered by a provider thread: the append, or the except
\* branch when reaching or appending to the list raises.
Callback(op, role, text, fault, errorKind) ==
    /\ streaming \/ orphan
    /\ Len(messages) < MaxMessages
    /\ IF fault
       THEN /\ cb_notice' = errorKind
            /\ last' = Event(op, text, "error")
            /\ UNCHANGED <<messages, processed>>
       ELSE LET m == ChatMessage(role, text)
            IN  /\ messages' = TranscriptAppend(messages, m)
                /\ processed' = Append(processed, m)
                /\ cb_notice' = None
                /\ last' = Event(op, text, "ok")
    /\ UNCHANGED <<AGENT_ID, API_KEY, conversation_active, conversation_obj,
                   error_count, pc, prompt, streaming, orphan, ui, calls,
                   audio, fails, transition>>

on_user_transcript(transcript, fault) ==
    Callback("on_user_transcript", "user", transcript, fault,
             "user_transcript_error")

\* An agent callback that records its text under the user's role.
AgentResponseAsUser(response, fault) ==
    Callback("on_agent_response", "user", response, fault,
             "agent_response_error")

on_agent_response(response, fault) ==
    Callback("on_agent_response", "assistant", response, fault,
             "agent_response_error")

Next ==
    \/ StartRejected
    \/ \E outcome \in StartOutcomes : StartConversation(outcome)
    \/ StopRejected
    \/ \E in \in StreamStates, out \in StreamStates, pa \in PaStates,
          fault \in BOOLEAN, keeps \in BOOLEAN :
            StopConversation(in, out, pa, fault, keeps)
    \/ ClearChat
    \/ AutoRefresh
    \/ \E p \in Prompts : TextInput(p)
    \/ TextAcknowledge
    \/ \E t \in Texts, fault \in BOOLEAN : on_user_transcript(t, fault)
    \/ \E t \in Texts, fault \in BOOLEAN : on_agent_response(t, fault)

Spec == Init /\ [][Next]_vars

\* ---- properties ----------------------------------------------------------
HasNotice(kind) == \E i \in 1..Len(ui) : ui[i].kind = kind

\* C1 (forced-reset law): once a stop has been processed with a session
\* handle present, the conversation is inactive and the handle is absent,
\* whether end_session() returned or raised.
C1_ForcedReset ==
    (last.op = "stop" /\ last.outcome \in {"ok", "forced"})
        => (conversation_active = FALSE /\ conversation_obj = None)

\* A stop whose end_session() raised has been processed.
C1_Witness ==
    /\ last.op = "stop"
    /\ last.outcome = "forced"
    /\ audio.fault
    /\ HasNotice("cleanup_warning")
    /\ ~conversation_active
    /\ conversation_obj = None

\* C2: every failed start adds one to error_count, so that after n
\* consecutive failed starts error_count = n, and at the third the
\* "multiple failures" message is shown along with the failure message.
C2_FailuresAccumulate ==
    (last.op = "start" /\ last.outcome = "failed")
        => /\ error_count = fails
           /\ HasNotice("start_failed")
           /\ fails = 3 => (error_count = 3 /\ HasNotice("multiple_failures"))

\* C3: conversation_active is true exactly when conversation_obj is present.
C3_ActiveIffHandle == conversation_active <=> (conversation_obj # None)

\* An active conversation started after an earlier one was force-reset, with
\* callbacks delivered.
C3_Witness ==
    /\ conversation_active
    /\ conversation_obj # None
    /\ orphan
    /\ messages # <<>>
    /\ pc = "idle"

\* C4: conversation_active is true exactly when the most recent of
\* {successful start, processed stop} was a successful start; failed starts
\* and stops issued while inactive leave it as it was.
C4_ActiveTracksLastTransition ==
    /\ [](conversation_active <=> (transition = "start_ok"))
    /\ [][((last'.op = "start" /\ last'.outcome = "failed")
            \/ (last'.op = "stop" /\ last'.outcome = "disabled"))
          => (conversation_active' = conversation_active
              /\ transition' = transition)]_vars

\* A start failed after a conversation had been started and stopped.
C4_Witness ==
    /\ transition = "stop"
    /\ last.op = "start"
    /\ last.outcome = "failed"
    /\ ~conversation_active

\* The first call of each cleanup step.
StepCalls == {"in_stream.stop_stream", "out_stream.stop_stream", "pa.terminate"}

IsStepCall(c) == c \in StepCalls

\* C5: the release run by a processed stop attempts its three steps in
\* order (input stream, output stream, audio subsystem) whichever of them
\* raise, reports each failing step as a warning, and does not raise: when
\* end_session() has no fault of its own the stop ends normally.
C5_ReleaseAttemptsAllSteps ==
    (last.op = "stop" /\ last.outcome \in {"ok", "forced"})
        => /\ SelectSeq(calls, IsStepCall)
                = (IF audio.in # "absent" THEN <<"in_stream.stop_stream">> ELSE <<>>)
                  \o (IF audio.out # "absent" THEN <<"out_stream.stop_stream">> ELSE <<>>)
                  \o (IF audio.pa # "absent" THEN <<"pa.terminate">> ELSE <<>>)
           /\ HasNotice("audio_cleanup_warning")
                <=> (audio.in \in {"stop_raises", "close_raises"})
           /\ HasNotice("audio_output_cleanup_warning")
                <=> (audio.out \in {"stop_raises", "close_raises"})
           /\ HasNotice("pyaudio_termination_warning") <=> (audio.pa = "raises")
           /\ ~audio.fault => last.outcome = "ok"

\* A release in which all three steps raised, each one attempted.
C5_Witness ==
    /\ last.op = "stop"
    /\ audio.in = "stop_raises"
    /\ audio.out = "close_raises"
    /\ audio.pa = "raises"
    /\ ~audio.fault
    /\ calls = <<"end_session", "in_stream.stop_stream", "out_stream.stop_stream",
                 "out_stream.close", "pa.terminate">>

UserMessage(text) == [role |-> "user", content |-> text]

AssistantMessage(text) == [role |-> "assistant", content |-> text]

\* C6 as stated: every invocation of on_user_transcript(text) appends
\* exactly {user, text} at the end of messages, and every invocation of
\* on_agent_response(text) appends exactly {assistant, text}.
C6_EveryInvocationAppends ==
    [][/\ last'.op = "on_user_transcript"
            => messages' = Append(messages, UserMessage(last'.arg))
       /\ last'.op = "on_agent_response"
            => messages' = Append(messages, AssistantMessage(last'.arg))]_vars

\* C6 as amended: an invocation of on_user_transcript(text) whose append does
\* not raise appends exactly {user, text} at the end of messages, one of
\* on_agent_response(text) appends exactly {assistant, text}; an invocation
\* whose append raises leaves messages as they were.
C6_CallbackAppendsUnlessItRaises ==
    [][/\ last'.op = "on_user_transcript"
            => messages' = IF last'.outcome = "ok"
                           THEN Append(messages, UserMessage(last'.arg))
                           ELSE messages
       /\ last'.op = "on_agent_response"
            => messages' = IF last'.outcome = "ok"
                           THEN Append(messages, AssistantMessage(last'.arg))
                           ELSE messages]_vars

\* The scenario of the claim: start, on_user_transcript("hello"),
\* on_agent_response("hi there") on an empty transcript.
C6_Witness ==
    /\ conversation_active
    /\ last = Event("on_agent_response", "hi there", "ok")
    /\ messages = <<UserMessage("hello"), AssistantMessage("hi there")>>

\* C7: once the text fallback has run for a prompt, the transcript ends with
\* the user message of that prompt immediately followed by its canned
\* acknowledgement, and the session is inactive with no handle, as it was.
C7_FallbackPairAdjacent ==
    (last.op = "text_ack")
        => /\ Len(messages) >= 2
           /\ messages[Len(messages) - 1] = UserMessage(last.arg)
           /\ messages[Len(messages)] = AssistantMessage(Acknowledgement(last.arg))
           /\ ~conversation_active
           /\ conversation_obj = None

\* C8: the transcript holds the messages produced since the last clear in
\* the order their appends were processed: none lost, none split, none out
\* of order.
C8_TranscriptInProcessingOrder == messages = processed

\* Three appends from two sources, kept in the order they were processed.
C8_Witness ==
    /\ Len(messages) = 3
    /\ messages[1].content \in Prompts
    /\ messages[2].content \in Texts
    /\ messages[3].role = "assistant"
    /\ processed = messages

\* C9: the clear command can be taken in every state in which the script is
\* idle, active or not; it leaves messages empty and conversation_active,
\* conversation_obj and error_count as they were.
C9_ClearEmptiesTranscriptOnly ==
    /\ [](pc = "idle" => ENABLED ClearChat)
    /\ [][last'.op = "clear"
          => /\ messages' = <<>>
             /\ conversation_active' = conversation_active
             /\ conversation_obj' = conversation_obj
             /\ error_count' = error_count
             /\ streaming' = streaming]_vars

\* A non-empty transcript cleared while a conversation is active.
C9_Witness ==
    /\ last = Event("clear", "nonempty", "ok")
    /\ messages = <<>>
    /\ conversation_active
    /\ conversation_obj # None
    /\ streaming

\* C10: a start command issued while AGENT_ID or API_KEY is absent or empty
\* makes no provider call, and leaves the conversation inactive, the handle
\* absent and error_count as it was.
C10_StartWithoutCredentialsRejected ==
    [][(last'.op = "start" /\ ~(Truthy(AGENT_ID) /\ Truthy(API_KEY)))
       => /\ calls' = <<>>
          /\ last'.outcome = "disabled"
          /\ conversation_active' = FALSE
          /\ conversation_obj' = None
          /\ streaming' = FALSE
          /\ error_count' = error_count]_vars

\* A start command rejected with the agent id present and the API key empty.
C10_Witness ==
    /\ last = Event("start", None, "disabled")
    /\ Truthy(AGENT_ID)
    /\ API_KEY = ""
    /\ calls = <<>>
    /\ ~conversation_active
    /\ HasNotice("missing_credentials")

\* C11: a start attempt in which the client construction, the audio adapter
\* or conversation construction, or start_session() raised leaves the
\* conversation inactive with no handle stored, shows the failure message,
\* and leaves the transcript as it was.
C11_FailedStartStaysInactive ==
    [][(last'.op = "start" /\ last'.outcome = "failed")
       => /\ conversation_active' = FALSE
          /\ conversation_obj' = None
          /\ streaming' = FALSE
          /\ \E i \in 1..Len(ui') : ui'[i].kind = "start_failed"
          /\ messages' = messages]_vars

\* start_session() raised with messages already in the transcript.
C11_Witness ==
    /\ last = Event("start", "start_session_raises", "failed")
    /\ calls = StartCalls("start_session_raises")
    /\ HasNotice("start_failed")
    /\ messages # <<>>
    /\ ~conversation_active
    /\ conversation_obj = None

\* C12: a start command issued while a conversation is active is not
\* accepted: it makes no provider call and leaves the stored handle as it
\* is; and whenever a start does open a provider session, no handle was
\* stored before it.
C12_NoStartWhileActive ==
    [][/\ (last'.op = "start" /\ conversation_active)
            => /\ last'.outcome = "disabled"
               /\ calls' = <<>>
               /\ conversation_obj' = conversation_obj
               /\ conversation_active' = conversation_active
       /\ (last'.op = "start" /\ calls' # <<>>)
            => (conversation_obj = None /\ ~conversation_active)]_vars

\* A start command rejected while a conversation is active.
C12_Witness ==
    /\ last = Event("start", None, "disabled")
    /\ CredentialsLoaded
    /\ conversation_active
    /\ conversation_obj # None
    /\ calls = <<>>

\* C13: every failing external call is caught where it is made and gives
\* its message: a failed start its failure message, a raising end_session()
\* the cleanup warning, each failing audio cleanup step its own warning
\* without making the stop fail, a raising callback append the callback's
\* error message; and the handler of each has run to its end.
C13_EveryFailureCaughtAndReported ==
    /\ (last.op = "start" /\ last.outcome = "failed")
            => (HasNotice("start_failed") /\ pc = "idle")
    /\ (last.op = "stop" /\ last.outcome = "forced")
            => (HasNotice("cleanup_warning") /\ audio.fault /\ pc = "idle")
    /\ (last.op = "stop" /\ last.outcome \in {"ok", "forced"})
            => /\ HasNotice("audio_cleanup_warning")
                    <=> (audio.in \in {"stop_raises", "close_raises"})
               /\ HasNotice("audio_output_cleanup_warning")
                    <=> (audio.out \in {"stop_raises", "close_raises"})
               /\ HasNotice("pyaudio_termination_warning")
                    <=> (audio.pa = "raises")
               /\ ~audio.fault => last.outcome = "ok"
    /\ (last.op = "on_user_transcript" /\ last.outcome = "error")
            => cb_notice = "user_transcript_error"
    /\ (last.op = "on_agent_response" /\ last.outcome = "error")
            => cb_notice = "agent_response_error"

\* A stop in which end_session() and an audio cleanup step both raised.
C13_Witness ==
    /\ last = Event("stop", None, "forced")
    /\ audio.fault
    /\ audio.out = "stop_raises"
    /\ HasNotice("cleanup_warning")
    /\ HasNotice("audio_output_cleanup_warning")

\* C14: a stop command issued while the conversation is inactive calls
\* nothing (no end_session) and leaves conversation_active, conversation_obj,
\* error_count and the transcript as they were.
C14_StopWhileInactiveIsNoOp ==
    [][(last'.op = "stop" /\ ~conversation_active)
       => /\ last'.outcome = "disabled"
          /\ calls' = <<>>
          /\ conversation_active' = conversation_active
          /\ conversation_obj' = conversation_obj
          /\ error_count' = error_count
          /\ messages' = messages
          /\ streaming' = streaming
          /\ orphan' = orphan]_vars

\* A stop command ignored after a failed start, with a transcript present.
C14_Witness ==
    /\ last = Event("stop", None, "disabled")
    /\ ~conversation_active
    /\ conversation_obj = None
    /\ error_count = 1
    /\ messages # <<>>
    /\ calls = <<>>

CallbackOps == {"on_user_transcript", "on_agent_response"}

\* C15: a callback whose append raises reports the error and returns: the
\* transcript, conversation_active, conversation_obj and the delivery of
\* callbacks are as they were, and a further callback can be processed.
C15_CallbackFailureKeepsSession ==
    /\ [][(last'.op \in CallbackOps /\ last'.outcome = "error")
          => /\ cb_notice' = (IF last'.op = "on_user_transcript"
                              THEN "user_transcript_error"
                              ELSE "agent_response_error")
             /\ conversation_active' = conversation_active
             /\ conversation_obj' = conversation_obj
             /\ streaming' = streaming
             /\ orphan' = orphan
             /\ messages' = messages]_vars
    /\ []((last.op \in CallbackOps /\ last.outcome = "error")
          => /\ ENABLED (\E t \in Texts : on_user_transcript(t, FALSE))
             /\ ENABLED (\E t \in Texts : on_agent_response(t, FALSE)))

\* An agent-response append failed during an active conversation that had
\* already delivered a message.
C15_Witness ==
    /\ last = Event("on_agent_response", "hi there", "error")
    /\ cb_notice = "agent_response_error"
    /\ conversation_active
    /\ conversation_obj # None
    /\ streaming
    /\ messages = <<UserMessage("hello")>>

\* C16: every step leaves the transcript unchanged, extends it by one
\* message at the end (only a callback or the text fallback does), or
\* empties it (only clear does); start and stop steps leave it unchanged.
C16_TranscriptAppendOnly ==
    [][/\ \/ messages' = messages
          \/ /\ Len(messages') = Len(messages) + 1
             /\ SubSeq(messages', 1, Len(messages)) = messages
             /\ last'.op \in CallbackOps \cup {"text_input", "text_ack"}
          \/ /\ messages' = <<>>
             /\ last'.op = "clear"
       /\ last'.op \in {"start", "stop", "rerun"} => messages' = messages]_vars

\* A second conversation started with the messages of the first still there.
C16_Witness ==
    /\ last = Event("start", None, "ok")
    /\ orphan
    /\ Len(messages) = 2
    /\ messages[1].content \in Texts

\* C17: a start attempt that reaches the handler sets error_count to 0 before
\* it calls the provider: after a successful start error_count = 0, after a
\* failed one it is 1; and stop, clear, the text fallback and the callbacks
\* leave error_count as it was.
C17_ErrorCountResetByStart ==
    /\ []((last.op = "start" /\ last.outcome = "ok") => error_count = 0)
    /\ []((last.op = "start" /\ last.outcome = "failed") => error_count = 1)
    /\ [][last'.op \in CallbackOps \cup {"stop", "clear", "text_input", "text_ack"}
          => error_count' = error_count]_vars

\* A second consecutive failed start: the reset has acted, the count is 1.
C17_Witness ==
    /\ last.op = "start"
    /\ last.outcome = "failed"
    /\ fails = 2
    /\ error_count = 1
    /\ calls # <<>>
====
